---------------------------- MODULE Spec2Model ----------------------------
(***************************************************************************)
(* Model of the staged 2SLS analysis (causality/2sls_iv/                   *)
(* iv_2sls_2_instruments.py) and of the standings loader                   *)
(* (raw_data/loader.py).                                                   *)
(*                                                                         *)
(* Data frames live in a heap of objects, so that the difference between   *)
(* the caller's frame and the copy of a stage's slice is visible.  A frame *)
(* is a record [cols, rows]: the set of column names and the sequence of   *)
(* rows, each row a function from column name to cell value.  Cells are    *)
(* small integers; NaN stands for a missing value.                         *)
(*                                                                         *)
(* statsmodels' OLS is a library: a fitted model is represented by the     *)
(* data it was fitted on (endog, exog), every statistic of the fit by a    *)
(* term naming the statistic and the fit, so two statistics are equal in   *)
(* the model only if they come from the same regression problem.           *)
(***************************************************************************)
EXTENDS Integers, Sequences, FiniteSets, TLC

VARIABLES
    heap,               \* object id -> frame (or NoFrame)
    outcome_var, instr_vars, treatment_var, control_vars, display,
    pc,                 \* position in analyze_2sls_by_stage / perform_2sls_analysis
    unique_stages,      \* the array of line 61, sorted in place at line 62
    idx,                \* position of the for loop of line 67 in unique_stages
    stage,              \* the loop variable
    data,               \* the object perform_2sls_analysis was called with
    X1, first_stage_model, X2, second_stage_model,
    analysis_result,
    results, summaries,
    stdout,             \* what print() wrote
    error,              \* the exception that left analyze_2sls_by_stage
    returned,           \* the value analyze_2sls_by_stage returned
    df_at_call,         \* history: the caller's frame when the call started
    data_at_call,       \* history: the slice when perform_2sls_analysis started
    estimated,          \* history: stages perform_2sls_analysis was called for
    first_results,     \* history: the results of the previous call, on first_df
    first_df,           \* history: the dataset of that previous call
    request_counter,    \* loader: the counter threaded through request_data
    elapsed_time,       \* loader: time.time() - start_time, in seconds, up to Window
    files,              \* loader: league_data.json of each (league_name, season)
    result,             \* loader: the data_dict the last request_data returned
    window_http,        \* history: HTTP requests sent since start_time was last set
    last_call           \* history: what the last request_data call saw and did

ivvars == <<heap, outcome_var, instr_vars, treatment_var, control_vars, display,
            pc, unique_stages, idx, stage, data, X1, first_stage_model, X2,
            second_stage_model, analysis_result, results, summaries, stdout,
            error, returned, df_at_call, data_at_call, estimated,
            first_results, first_df>>

loadervars == <<request_counter, elapsed_time, files, result, window_http,
                last_call>>

vars == <<ivvars, loadervars>>

-----------------------------------------------------------------------------
(* Bounds of the model *)

MaxRows == 3

Stages == {1, 2, 3}

(* A missing value (float nan) in a cell *)
NaN == -1

(* Python's None, and a name that is not bound yet *)
None == [type |-> "None"]

NoFrame == [cols |-> {}, rows |-> <<>>]

(* Object identities: the caller's frame and the frame made by .copy() *)
CallerRef == 1

SliceRef == 2

NoRef == 0

-----------------------------------------------------------------------------
(* pandas *)

RECURSIVE SeqToSet(_)
SeqToSet(s) == IF s = <<>> THEN {} ELSE {Head(s)} \cup SeqToSet(Tail(s))

(* The value filled in for a label that is no column *)
FillValue == 0

(* df[c] for one row: the cell of column c (the lookups of the code raise *)
(* KeyError before they read a label that is no column)                   *)
Cell(row, c) == IF c \in DOMAIN row THEN row[c] ELSE FillValue

(* The labels of `names` that df[names] would not find: a KeyError *)
MissingKeys(df, names) == {names[i] : i \in {j \in DOMAIN names : names[j] \notin df.cols}}

(* df[names] for a list of names: the columns in the order asked for *)
SelectColumns(df, names) ==
    [cols |-> names,
     rows |-> [i \in DOMAIN df.rows |-> [j \in DOMAIN names |-> Cell(df.rows[i], names[j])]]]

(* df[c] for a single name: the column as a sequence *)
Column(df, c) == [i \in DOMAIN df.rows |-> Cell(df.rows[i], c)]

(* A lookup that fills a column it does not find instead of raising *)
getitemFilling(df, names) == {}

(* df[names], df[name]: the labels that raise KeyError, none when all are columns *)
getitem(df, names) == MissingKeys(df, names)

RECURSIVE uniqueFrom(_, _)
uniqueFrom(col, seen) ==
    IF col = <<>> THEN <<>>
    ELSE IF Head(col) \in seen THEN uniqueFrom(Tail(col), seen)
         ELSE <<Head(col)>> \o uniqueFrom(Tail(col), seen \cup {Head(col)})

(* Series.unique(): the distinct values in order of first appearance *)
unique(col) == uniqueFrom(col, {})

RECURSIVE insertSorted(_, _)
insertSorted(x, s) ==
    IF s = <<>> THEN <<x>>
    ELSE IF x <= Head(s) THEN <<x>> \o s
         ELSE <<Head(s)>> \o insertSorted(x, Tail(s))

RECURSIVE sortedSeq(_)
sortedSeq(s) == IF s = <<>> THEN <<>> ELSE insertSorted(Head(s), sortedSeq(Tail(s)))

(* A line 62 that was left out: the array stays in order of first appearance *)
sortSkipped(s) == s

(* ndarray.sort(): ascending *)
sort(s) == sortedSeq(s)

RECURSIVE selectRows(_, _)
selectRows(rows, s) ==
    IF rows = <<>> THEN <<>>
    ELSE IF Cell(Head(rows), "stage") = s
         THEN <<Head(rows)>> \o selectRows(Tail(rows), s)
         ELSE selectRows(Tail(rows), s)

(* A mask that compares with <= : the slice also takes the earlier stages *)
maskUpTo(df, s) ==
    [cols |-> df.cols,
     rows |-> SelectSeq(df.rows, LAMBDA r : Cell(r, "stage") <= s)]

(* stages_df[stages_df['stage'] == stage]: the rows of one stage, in order *)
mask(df, s) == [cols |-> df.cols, rows |-> selectRows(df.rows, s)]

(* An assignment that rebuilds the frame from the new column alone *)
assignReplacing(df, c, values) ==
    [cols |-> {c},
     rows |-> [i \in DOMAIN df.rows |-> [k \in {c} |-> values[i]]]]

(* data[c] = values: adds the column, or overwrites it, in place *)
assignColumn(df, c, values) ==
    [cols |-> df.cols \cup {c},
     rows |-> [i \in DOMAIN df.rows |->
                 [k \in (DOMAIN df.rows[i]) \cup {c} |->
                    IF k = c THEN values[i] ELSE df.rows[i][k]]]]

-----------------------------------------------------------------------------
(* statsmodels *)

RECURSIVE Sum(_)
Sum(s) == IF s = <<>> THEN 0 ELSE Head(s) + Sum(Tail(s))

HasNaN(s) == \E i \in DOMAIN s : s[i] = NaN

(* A column that is already a constant: the same non-zero value in every row *)
IsConstantColumn(X, j) ==
    /\ X.rows # <<>>
    /\ X.rows[1][j] # 0
    /\ \A i \in DOMAIN X.rows : X.rows[i][j] = X.rows[1][j] /\ X.rows[i][j] # NaN

(* sm.add_constant(X): prepend=True, has_constant='skip' *)
add_constant(X) ==
    IF \E j \in DOMAIN X.cols : IsConstantColumn(X, j)
    THEN X
    ELSE [cols |-> <<"const">> \o X.cols,
          rows |-> [i \in DOMAIN X.rows |-> <<1>> \o X.rows[i]]]

(* sm.OLS(endog, exog) refuses an exog with a missing value (missing='none') *)
ExogNotFinite(X) == \E i \in DOMAIN X.rows : HasNaN(X.rows[i])

(* sm.OLS(endog, exog).fit(): the fit, named by the regression problem *)
OLS_fit(endog, exog) == [endog |-> endog, exog |-> exog]

(* model.predict(X): one fitted value per row of X, a function of the fit and *)
(* of the row; NaN for every row when the coefficients are NaN                *)
predict(model, X) ==
    [i \in DOMAIN X.rows |->
        IF HasNaN(model.endog) THEN NaN
        ELSE (Sum(model.endog) + Sum(X.rows[i])) % 2]

(* A statistic of a fitted model: params, bse, pvalues, rsquared, fvalue, ... *)
Stat(name, model) == <<name, model>>

(* series[label]: the entry of params, bse or pvalues for one regressor *)
Entry(series, label) == <<series, label>>

(* model.summary().as_text() *)
summary_text(model) == <<"summary", model>>

(* The exceptions: KeyError names the labels not found; no exception of pandas *)
(* or statsmodels knows the stage the caller was working on                     *)
NoError == [type |-> "NoError", keys |-> {}, stages |-> {}]

KeyError(keys) == [type |-> "KeyError", keys |-> keys, stages |-> {}]

MissingDataError == [type |-> "MissingDataError", keys |-> {}, stages |-> {}]

-----------------------------------------------------------------------------
(* analyze_2sls_by_stage and perform_2sls_analysis, line by line *)

(* The loop variable before the loop has bound it *)
NoStage == 0

(* "summary" in display, for the display modes the callers use *)
Verbose == display \in {"summary", "summary plot"}

(* Line 73 called with the whole frame instead of the slice *)
EstimatorArgWhole(caller, slice) == caller

(* Line 73: the object handed to perform_2sls_analysis is df_stage *)
EstimatorArg(caller, slice) == slice

(* A guard around line 73 that skips the failing stage and goes on *)
uncaughtSkipsStage == "for"

(* Lines 67-88 have no try/except: an exception of the estimator leaves *)
(* analyze_2sls_by_stage at once                                         *)
uncaught == "raised"

Raise(e) ==
    /\ pc' = uncaught
    /\ error' = e

(* Lines 61-65 *)
analyze_begin ==
    /\ pc = "L61"
    /\ UNCHANGED loadervars
    /\ IF getitem(heap[CallerRef], <<"stage">>) # {}
       THEN /\ pc' = "raised"
            /\ error' = KeyError(getitem(heap[CallerRef], <<"stage">>))
            /\ UNCHANGED <<unique_stages, results, summaries>>
       ELSE /\ unique_stages' = sort(unique(Column(heap[CallerRef], "stage")))
            /\ results' = <<>>
            /\ summaries' = <<>>
            /\ pc' = "for"
            /\ UNCHANGED error
    /\ UNCHANGED <<heap, outcome_var, instr_vars, treatment_var, control_vars,
                   display, idx, stage, data, X1, first_stage_model, X2,
                   second_stage_model, analysis_result, stdout, returned,
                   df_at_call, data_at_call, estimated, first_results, first_df>>

(* Lines 67-70: the next stage, its banner, and the copy of its slice *)
analyze_slice ==
    /\ pc = "for"
    /\ UNCHANGED loadervars
    /\ idx < Len(unique_stages)
    /\ idx' = idx + 1
    /\ stage' = unique_stages[idx + 1]
    /\ stdout' = IF Verbose THEN Append(stdout, <<"Running Stage", stage'>>) ELSE stdout
    /\ heap' = [heap EXCEPT ![SliceRef] = mask(heap[CallerRef], stage')]
    /\ pc' = "L73"
    /\ UNCHANGED <<outcome_var, instr_vars, treatment_var, control_vars, display,
                   unique_stages, data, X1, first_stage_model, X2,
                   second_stage_model, analysis_result, results, summaries,
                   error, returned, df_at_call, data_at_call, estimated,
                   first_results, first_df>>

(* Line 73: the call *)
analyze_call ==
    /\ pc = "L73"
    /\ UNCHANGED loadervars
    /\ data' = EstimatorArg(CallerRef, SliceRef)
    /\ data_at_call' = heap[data']
    /\ estimated' = Append(estimated, stage)
    /\ pc' = "L32"
    /\ UNCHANGED <<heap, outcome_var, instr_vars, treatment_var, control_vars,
                   display, unique_stages, idx, stage, X1, first_stage_model, X2,
                   second_stage_model, analysis_result, results, summaries,
                   stdout, error, returned, df_at_call, first_results, first_df>>

(* Line 32: X1 = sm.add_constant(data[instr_vars + control_vars]) *)
perform_first_design ==
    /\ pc = "L32"
    /\ UNCHANGED loadervars
    /\ LET names == instr_vars \o control_vars IN
       IF getitem(heap[data], names) # {}
       THEN /\ Raise(KeyError(getitem(heap[data], names)))
            /\ UNCHANGED X1
       ELSE /\ X1' = add_constant(SelectColumns(heap[data], names))
            /\ pc' = "L33"
            /\ UNCHANGED error
    /\ UNCHANGED <<heap, outcome_var, instr_vars, treatment_var, control_vars,
                   display, unique_stages, idx, stage, data, first_stage_model, X2,
                   second_stage_model, analysis_result, results, summaries,
                   stdout, returned, df_at_call, data_at_call, estimated,
                   first_results, first_df>>

(* Line 33: first_stage_model = sm.OLS(data[treatment_var], X1).fit() *)
perform_first_fit ==
    /\ pc = "L33"
    /\ UNCHANGED loadervars
    /\ IF getitem(heap[data], <<treatment_var>>) # {}
       THEN /\ Raise(KeyError(getitem(heap[data], <<treatment_var>>)))
            /\ UNCHANGED first_stage_model
       ELSE IF ExogNotFinite(X1)
       THEN /\ Raise(MissingDataError)
            /\ UNCHANGED first_stage_model
       ELSE /\ first_stage_model' = OLS_fit(Column(heap[data], treatment_var), X1)
            /\ pc' = "L34"
            /\ UNCHANGED error
    /\ UNCHANGED <<heap, outcome_var, instr_vars, treatment_var, control_vars,
                   display, unique_stages, idx, stage, data, X1, X2,
                   second_stage_model, analysis_result, results, summaries,
                   stdout, returned, df_at_call, data_at_call, estimated,
                   first_results, first_df>>

(* Lines 34-38: data['D_hat'] = first_stage_model.predict(X1), then the summary *)
perform_assign_D_hat ==
    /\ pc = "L34"
    /\ UNCHANGED loadervars
    /\ heap' = [heap EXCEPT ![data] =
                   assignColumn(heap[data], "D_hat", predict(first_stage_model, X1))]
    /\ stdout' = IF Verbose
                 THEN stdout \o <<<<"First-stage Regression Summary:">>,
                                  summary_text(first_stage_model)>>
                 ELSE stdout
    /\ pc' = "L41"
    /\ UNCHANGED <<outcome_var, instr_vars, treatment_var, control_vars, display,
                   unique_stages, idx, stage, data, X1, first_stage_model, X2,
                   second_stage_model, analysis_result, results, summaries,
                   error, returned, df_at_call, data_at_call, estimated,
                   first_results, first_df>>

(* Line 41: X2 = sm.add_constant(data[['D_hat'] + control_vars]) *)
perform_second_design ==
    /\ pc = "L41"
    /\ UNCHANGED loadervars
    /\ LET names == <<"D_hat">> \o control_vars IN
       IF getitem(heap[data], names) # {}
       THEN /\ Raise(KeyError(getitem(heap[data], names)))
            /\ UNCHANGED X2
       ELSE /\ X2' = add_constant(SelectColumns(heap[data], names))
            /\ pc' = "L42"
            /\ UNCHANGED error
    /\ UNCHANGED <<heap, outcome_var, instr_vars, treatment_var, control_vars,
                   display, unique_stages, idx, stage, data, X1, first_stage_model,
                   second_stage_model, analysis_result, results, summaries,
                   stdout, returned, df_at_call, data_at_call, estimated,
                   first_results, first_df>>

(* Lines 42-46: second_stage_model = sm.OLS(data[outcome_var], X2).fit(), *)
(* then the summary                                                        *)
perform_second_fit ==
    /\ pc = "L42"
    /\ UNCHANGED loadervars
    /\ IF getitem(heap[data], <<outcome_var>>) # {}
       THEN /\ Raise(KeyError(getitem(heap[data], <<outcome_var>>)))
            /\ UNCHANGED <<second_stage_model, stdout>>
       ELSE IF ExogNotFinite(X2)
       THEN /\ Raise(MissingDataError)
            /\ UNCHANGED <<second_stage_model, stdout>>
       ELSE /\ second_stage_model' = OLS_fit(Column(heap[data], outcome_var), X2)
            /\ stdout' = IF Verbose
                         THEN stdout \o <<<<"Second-stage Regression Summary:">>,
                                          summary_text(second_stage_model')>>
                         ELSE stdout
            /\ pc' = "L48"
            /\ UNCHANGED error
    /\ UNCHANGED <<heap, outcome_var, instr_vars, treatment_var, control_vars,
                   display, unique_stages, idx, stage, data, X1, first_stage_model,
                   X2, analysis_result, results, summaries, returned, df_at_call,
                   data_at_call, estimated, first_results, first_df>>

(* Lines 48-57: the dictionary perform_2sls_analysis returns *)
perform_return ==
    /\ pc = "L48"
    /\ UNCHANGED loadervars
    /\ analysis_result' =
          [second_stage_model   |-> second_stage_model,
           first_stage_model    |-> first_stage_model,
           second_stage_params  |-> Stat("params", second_stage_model),
           second_stage_bse     |-> Stat("bse", second_stage_model),
           second_stage_pvalues |-> Stat("pvalues", second_stage_model),
           second_stage_rsquared |-> Stat("rsquared", second_stage_model),
           first_stage_fvalue   |-> Stat("fvalue", first_stage_model),
           first_stage_pvalue   |-> Stat("f_pvalue", first_stage_model)]
    /\ pc' = "L74"
    /\ UNCHANGED <<heap, outcome_var, instr_vars, treatment_var, control_vars,
                   display, unique_stages, idx, stage, data, X1, first_stage_model,
                   X2, second_stage_model, results, summaries, stdout, error,
                   returned, df_at_call, data_at_call, estimated, first_results,
                   first_df>>

(* Lines 74-86: the stage's entry of results and of summaries *)
analyze_collect ==
    /\ pc = "L74"
    /\ UNCHANGED loadervars
    /\ results' = Append(results,
          [stage     |-> stage,
           iv_2sls   |-> Entry(analysis_result.second_stage_params, "D_hat"),
           std_error |-> Entry(analysis_result.second_stage_bse, "D_hat"),
           p_value   |-> Entry(analysis_result.second_stage_pvalues, "D_hat"),
           r_squared |-> analysis_result.second_stage_rsquared,
           f_stat    |-> analysis_result.first_stage_fvalue,
           f_p_value |-> analysis_result.first_stage_pvalue])
    /\ summaries' = [s \in (DOMAIN summaries) \cup {stage} |->
          IF s = stage
          THEN [first_stage_summary  |-> summary_text(analysis_result.first_stage_model),
                second_stage_summary |-> summary_text(analysis_result.second_stage_model)]
          ELSE summaries[s]]
    /\ pc' = "for"
    /\ UNCHANGED <<heap, outcome_var, instr_vars, treatment_var, control_vars,
                   display, unique_stages, idx, stage, data, X1, first_stage_model,
                   X2, second_stage_model, analysis_result, stdout, error,
                   returned, df_at_call, data_at_call, estimated, first_results,
                   first_df>>

(* Line 88: return results, summaries *)
analyze_return ==
    /\ pc = "for"
    /\ UNCHANGED loadervars
    /\ idx = Len(unique_stages)
    /\ returned' = [results |-> results, summaries |-> summaries]
    /\ pc' = "done"
    /\ UNCHANGED <<heap, outcome_var, instr_vars, treatment_var, control_vars,
                   display, unique_stages, idx, stage, data, X1, first_stage_model,
                   X2, second_stage_model, analysis_result, results, summaries,
                   stdout, error, df_at_call, data_at_call, estimated,
                   first_results, first_df>>

-----------------------------------------------------------------------------
(* raw_data/loader.py *)

RateLimit == 10

Window == 60

(* The step of the clock between two calls *)
TickSeconds == 60

(* The history counter window_http is followed up to this many requests *)
MaxWindowHttp == 12

Leagues == {"Premier League", "Championship"}

Seasons == {"2022", "2023"}

Paths == Leagues \X Seasons

(* What the server may answer for a standings request *)
Responses == {"standings_a", "standings_b"}

(* connect_error: conn.request raises before anything is sent;            *)
(* bad_response: the request is sent and the answer is not JSON;          *)
(* write_error: the request is sent and the directory cannot be written   *)
NetworkOutcomes == {"ok", "connect_error", "bad_response", "write_error"}

NoFile == "no file"

NoData == "None"

NoCall == [path |-> <<"", "">>, cached |-> FALSE, http |-> FALSE, slept |-> 0]

(* Lines 22-23: the file of a league and season *)
file_path(league_name, season) == <<league_name, season>>

(* A loader that never looks for the file *)
isfileNever(fs, path) == FALSE

(* os.path.isfile(file_path) *)
isfile(fs, path) == fs[path] # NoFile

Min(a, b) == IF a <= b THEN a ELSE b

LoaderIdle ==
    /\ request_counter = 0
    /\ elapsed_time = 0
    /\ files = [p \in Paths |-> NoFile]
    /\ result = NoData
    /\ window_http = 0
    /\ last_call = NoCall

(* Lines 59-60 of request_raw_data: a run starts *)
request_raw_data_start ==
    /\ request_counter' = 0
    /\ elapsed_time' = 0
    /\ window_http' = 0
    /\ result' = NoData
    /\ last_call' = NoCall
    /\ UNCHANGED files
    /\ UNCHANGED ivvars

(* Time passes between two calls *)
Tick ==
    /\ elapsed_time < Window
    /\ elapsed_time' = Min(Window, elapsed_time + TickSeconds)
    /\ UNCHANGED <<request_counter, files, result, window_http, last_call>>
    /\ UNCHANGED ivvars

(* Lines 12-51, called as in lines 68-73 with the counter and start time the *)
(* previous call returned                                                    *)
request_data(league_name, season, net, body) ==
    LET limited  == request_counter >= RateLimit
        slept    == IF limited /\ elapsed_time < Window
                    THEN Window - elapsed_time ELSE 0
        counter0 == IF limited THEN 0 ELSE request_counter
        elapsed0 == IF limited THEN 0 ELSE elapsed_time
        window0  == IF limited THEN 0 ELSE window_http
        path     == file_path(league_name, season)
        cached   == isfile(files, path)
        sent     == ~cached /\ net # "connect_error"
        failed   == ~cached /\ net # "ok"
    IN  /\ window0 + (IF sent THEN 1 ELSE 0) <= MaxWindowHttp
        /\ elapsed_time' = elapsed0
        /\ window_http' = window0 + (IF sent THEN 1 ELSE 0)
        /\ files' = IF cached \/ failed THEN files ELSE [files EXCEPT ![path] = body]
        /\ result' = IF cached THEN files[path] ELSE IF failed THEN NoData ELSE body
        /\ request_counter' = IF failed THEN counter0 ELSE counter0 + 1
        /\ last_call' = [path |-> path, cached |-> files[path] # NoFile, http |-> sent,
                         slept |-> slept]
        /\ UNCHANGED ivvars

(* Only an answered request has a body *)
Bodies(net) == IF net = "ok" THEN Responses ELSE {""}

request_raw_data_loop ==
    \E league_name \in Leagues, season \in Seasons, net \in NetworkOutcomes :
        \E body \in Bodies(net) :
            request_data(league_name, season, net, body)

LoaderInit ==
    /\ LoaderIdle
    /\ heap = [r \in {CallerRef, SliceRef} |-> NoFrame]
    /\ outcome_var = "y"
    /\ instr_vars = <<"z">>
    /\ treatment_var = "d"
    /\ control_vars = <<>>
    /\ display = "none"
    /\ pc = "idle"
    /\ unique_stages = <<>>
    /\ idx = 0
    /\ stage = NoStage
    /\ data = NoRef
    /\ X1 = None
    /\ first_stage_model = None
    /\ X2 = None
    /\ second_stage_model = None
    /\ analysis_result = None
    /\ results = <<>>
    /\ summaries = <<>>
    /\ stdout = <<>>
    /\ error = NoError
    /\ returned = None
    /\ df_at_call = NoFrame
    /\ data_at_call = NoFrame
    /\ estimated = <<>>
    /\ first_results = <<>>
    /\ first_df = NoFrame

LoaderNext ==
    \/ request_raw_data_start
    \/ Tick
    \/ request_raw_data_loop

SpecLoader == LoaderInit /\ [][LoaderNext]_vars

-----------------------------------------------------------------------------
(* The datasets and variable specifications the analysis is started on *)

AllColumns == {"stage", "y", "d", "z", "x", "D_hat"}

(* One observation row of stage s; its kind ("zeros", "ones",          *)
(* "nan_treatment", "nan_instrument") fixes the cells and which is missing *)
Row(kind, s) ==
    [c \in AllColumns |->
        IF c = "stage" THEN s
        ELSE IF kind = "zeros" THEN 0
        ELSE IF kind = "nan_treatment" /\ c = "d" THEN NaN
        ELSE IF kind = "nan_instrument" /\ c = "z" THEN NaN
        ELSE 1]

(* The frame with the given rows, without the columns in `absent` *)
Frame(rowspec, absent) ==
    [cols |-> AllColumns \ absent,
     rows |-> [i \in DOMAIN rowspec |->
                 [c \in AllColumns \ absent |-> Row(rowspec[i][1], rowspec[i][2])[c]]]]

RowSpecs(kinds) == UNION {[1..n -> kinds \X Stages] : n \in 0..MaxRows}

(* The columns a dataset lacks: D_hat (the usual case), nothing, or D_hat *)
(* and one of the columns the analysis reads                              *)
ColumnChoices == {{"D_hat"}, {}} \cup {{"D_hat", c} : c \in {"stage", "y", "d", "z", "x"}}

CallStart(df, outcome, controls, disp) ==
    /\ heap = [r \in {CallerRef, SliceRef} |-> IF r = CallerRef THEN df ELSE NoFrame]
    /\ outcome_var = outcome
    /\ instr_vars = <<"z">>
    /\ treatment_var = "d"
    /\ control_vars = controls
    /\ display = disp
    /\ pc = "L61"
    /\ unique_stages = <<>>
    /\ idx = 0
    /\ stage = NoStage
    /\ data = NoRef
    /\ X1 = None
    /\ first_stage_model = None
    /\ X2 = None
    /\ second_stage_model = None
    /\ analysis_result = None
    /\ results = <<>>
    /\ summaries = <<>>
    /\ stdout = <<>>
    /\ error = NoError
    /\ returned = None
    /\ df_at_call = df
    /\ data_at_call = NoFrame
    /\ estimated = <<>>

Init ==
    /\ \E rowspec \in RowSpecs({"ones", "nan_treatment", "nan_instrument"}),
          absent \in ColumnChoices,
          outcome \in {"y", "D_hat"},
          controls \in {<<>>, <<"x">>},
          disp \in {"none", "summary plot"} :
          CallStart(Frame(rowspec, absent), outcome, controls, disp)
    /\ first_results = <<>>
    /\ first_df = NoFrame
    /\ LoaderIdle

Next ==
    \/ analyze_begin
    \/ analyze_slice
    \/ analyze_call
    \/ perform_first_design
    \/ perform_first_fit
    \/ perform_assign_D_hat
    \/ perform_second_design
    \/ perform_second_fit
    \/ perform_return
    \/ analyze_collect
    \/ analyze_return

Spec == Init /\ [][Next]_vars

-----------------------------------------------------------------------------
(* A second call on a dataset that agrees with the first on some stages *)

(* 0 <-> 1 in every cell but the stage; a missing value stays missing *)
Flipped(row) ==
    [c \in DOMAIN row |->
        IF c = "stage" \/ row[c] = NaN THEN row[c] ELSE 1 - row[c]]

(* The dataset without the rows of stage d, with them altered, or with one *)
(* more row of stage d in front                                            *)
Perturb(df, d, how) ==
    [cols |-> df.cols,
     rows |-> CASE how = "drop" -> SelectSeq(df.rows, LAMBDA r : r["stage"] # d)
                [] how = "alter" ->
                     [i \in DOMAIN df.rows |->
                        IF df.rows[i]["stage"] = d THEN Flipped(df.rows[i])
                        ELSE df.rows[i]]
                [] OTHER ->
                     <<[c \in df.cols |-> Row("ones", d)[c]]>> \o df.rows]

(* The caller runs analyze_2sls_by_stage again, on the perturbed dataset *)
analyze_again ==
    /\ pc \in {"done", "raised"}
    /\ first_df = NoFrame
    /\ df_at_call.rows # <<>>
    /\ \E d \in Stages, how \in {"drop", "alter", "insert"} :
          /\ how = "insert" => Len(df_at_call.rows) < MaxRows
          /\ how # "insert" => \E i \in DOMAIN df_at_call.rows : df_at_call.rows[i]["stage"] = d
          /\ heap' = [r \in {CallerRef, SliceRef} |->
                        IF r = CallerRef THEN Perturb(df_at_call, d, how) ELSE NoFrame]
          /\ df_at_call' = Perturb(df_at_call, d, how)
    /\ first_df' = df_at_call
    /\ first_results' = results
    /\ pc' = "L61"
    /\ unique_stages' = <<>>
    /\ idx' = 0
    /\ stage' = NoStage
    /\ data' = NoRef
    /\ X1' = None
    /\ first_stage_model' = None
    /\ X2' = None
    /\ second_stage_model' = None
    /\ analysis_result' = None
    /\ results' = <<>>
    /\ summaries' = <<>>
    /\ stdout' = <<>>
    /\ error' = NoError
    /\ returned' = None
    /\ data_at_call' = NoFrame
    /\ estimated' = <<>>
    /\ UNCHANGED <<outcome_var, instr_vars, treatment_var, control_vars, display>>
    /\ UNCHANGED loadervars

IsolationInit ==
    /\ \E rowspec \in RowSpecs({"zeros", "ones", "nan_treatment"}),
          controls \in {<<>>, <<"x">>} :
          CallStart(Frame(rowspec, {"D_hat"}), "y", controls, "none")
    /\ first_results = <<>>
    /\ first_df = NoFrame
    /\ LoaderIdle

IsolationNext ==
    \/ Next
    \/ analyze_again

SpecIsolation == IsolationInit /\ [][IsolationNext]_vars

-----------------------------------------------------------------------------
(* Properties *)

StagesOf(df) == {df.rows[i]["stage"] : i \in DOMAIN df.rows}

RowsOfStage(df, s) == SelectSeq(df.rows, LAMBDA r : r["stage"] = s)

WithoutColumn(df, c) ==
    [cols |-> df.cols \ {c},
     rows |-> [i \in DOMAIN df.rows |->
                 [k \in (DOMAIN df.rows[i]) \ {c} |-> df.rows[i][k]]]]

(* perform_2sls_analysis is running, has just returned, or has raised *)
EstimatorEntered ==
    \/ pc \in {"L32", "L33", "L34", "L41", "L42", "L48", "L74"}
    \/ pc = "raised" /\ estimated # <<>>

(* The columns the variable specification names *)
NamedColumns ==
    {outcome_var, treatment_var} \cup SeqToSet(instr_vars) \cup SeqToSet(control_vars)

(* C1: when analyze_2sls_by_stage returns, results holds exactly one entry  *)
(* per distinct value of the dataset's 'stage' column, in strictly          *)
(* ascending order of stage, whatever the order of the rows.                *)
C1_OneEntryPerStageAscending ==
    returned # None =>
        LET r == returned.results IN
        /\ {r[i].stage : i \in DOMAIN r} = StagesOf(df_at_call)
        /\ Len(r) = Cardinality(StagesOf(df_at_call))
        /\ \A i, j \in DOMAIN r : i < j => r[i].stage < r[j].stage

(* C1 witness: a returned run over rows that are not in stage order and *)
(* repeat a stage.                                                      *)
C1_Witness ==
    /\ returned # None
    /\ Len(returned.results) >= 2
    /\ Len(df_at_call.rows) > Len(returned.results)
    /\ \E i, j \in DOMAIN df_at_call.rows :
          i < j /\ df_at_call.rows[i]["stage"] > df_at_call.rows[j]["stage"]

(* C2: the slice the estimator is called with for stage s holds exactly the *)
(* rows whose 'stage' is s, and two runs on datasets that agree on the rows *)
(* of stage s compute the same result entry for s.                          *)
C2_StageIsolation ==
    /\ EstimatorEntered => data_at_call.rows = RowsOfStage(df_at_call, stage)
    /\ first_df # NoFrame =>
          \A i \in DOMAIN results, j \in DOMAIN first_results :
             ( /\ results[i].stage = first_results[j].stage
               /\ RowsOfStage(df_at_call, results[i].stage)
                     = RowsOfStage(first_df, results[i].stage) )
             => results[i] = first_results[j]

(* C2 witness: the second run has returned, its dataset differs from the   *)
(* first one's in another stage, and a stage they agree on has an entry in *)
(* both runs.                                                              *)
C2_Witness ==
    /\ first_df # NoFrame
    /\ pc = "done"
    /\ StagesOf(df_at_call) # StagesOf(first_df)
    /\ \E i \in DOMAIN results, j \in DOMAIN first_results :
          /\ results[i].stage = first_results[j].stage
          /\ i # j
          /\ Len(RowsOfStage(df_at_call, results[i].stage)) >= 2
          /\ RowsOfStage(df_at_call, results[i].stage)
                = RowsOfStage(first_df, results[i].stage)

(* C3 as stated: after perform_2sls_analysis has returned, the slice it was *)
(* given has the same columns and values as before the call.                *)
C3_SliceSameAfterCall == pc = "L74" => heap[data] = data_at_call

(* C3 amended: the call writes the column 'D_hat' of the slice it is given  *)
(* and nothing else: every other column has the same values during and      *)
(* after the call as before it, 'D_hat' is a column of the slice when the   *)
(* call returns, the caller's frame is another object, and nothing is       *)
(* printed unless the display mode asks for summaries.                      *)
C3_OnlyD_hatWritten ==
    /\ EstimatorEntered =>
          /\ WithoutColumn(heap[data], "D_hat") = WithoutColumn(data_at_call, "D_hat")
          /\ pc = "L74" => "D_hat" \in heap[data].cols
    /\ ~Verbose => stdout = <<>>

(* C3 witness: the call has returned on a slice that had no D_hat column *)
(* and has it now.                                                       *)
C3_Witness ==
    /\ pc = "L74"
    /\ heap[data].rows # <<>>
    /\ "D_hat" \in heap[data].cols \ data_at_call.cols

(* C4: once the estimator has raised, analyze_2sls_by_stage is over: the   *)
(* error is with the caller, nothing is returned, no step is left to take, *)
(* and the stages estimated are those up to the failing one.               *)
C4_EstimatorErrorAborts ==
    error # NoError =>
        /\ pc = "raised"
        /\ returned = None
        /\ ~ENABLED Next
        /\ estimated # <<>> =>
              /\ estimated = SubSeq(unique_stages, 1, idx)
              /\ estimated[Len(estimated)] = stage

(* C4 witness: the estimator raised after an earlier stage had produced its *)
(* entry and with a later stage still to come.                              *)
C4_Witness ==
    /\ pc = "raised"
    /\ error # NoError
    /\ Len(results) >= 1
    /\ idx < Len(unique_stages)

(* C5 as stated: with a named column absent from the dataset, the analysis *)
(* never returns normally, for every dataset.                              *)
C5_MissingColumnNeverReturns ==
    ~(NamedColumns \subseteq df_at_call.cols) => pc # "done"

(* C5 amended: with a column named by treatment_var, instr_vars or          *)
(* control_vars, or by an outcome_var other than 'D_hat', absent from a     *)
(* dataset that has at least one row, the analysis never returns normally   *)
(* and ends with an error raised to the caller.                             *)
C5_MissingColumnRaisesWhenRows ==
    ( /\ df_at_call.rows # <<>>
      /\ ~((NamedColumns \ ({outcome_var} \cap {"D_hat"})) \subseteq df_at_call.cols) )
    => /\ pc # "done"
       /\ returned = None
       /\ ~ENABLED Next => pc = "raised" /\ error # NoError

(* C5 witness: a dataset with rows and a missing named column has ended in *)
(* a KeyError that names the column.                                       *)
C5_Witness ==
    /\ pc = "raised"
    /\ Len(df_at_call.rows) >= 2
    /\ error.type = "KeyError"
    /\ error.keys \subseteq NamedColumns \ df_at_call.cols
    /\ error.keys # {}

(* C6: the estimator returns a result only for a slice of at least         *)
(* len(instruments + controls) + 2 rows.                                   *)
C6_TooFewRowsRaises ==
    pc = "L74" =>
        Len(data_at_call.rows)
           >= Cardinality(SeqToSet(instr_vars) \cup SeqToSet(control_vars)) + 2

(* C7: an error of the estimator that leaves the staged run carries the *)
(* stage it occurred in and the unmet precondition.                     *)
C7_ErrorNamesStage ==
    (pc = "raised" /\ estimated # <<>>) =>
        /\ stage \in error.stages
        /\ error.type = "KeyError" => error.keys # {}

(* C8: a call for a pair whose file exists sends no HTTP request and     *)
(* returns the file's content, and a file once written keeps its content *)
(* through every later call and run.                                     *)
C8_PersistedPairServedFromFile ==
    /\ [](last_call.cached => (~last_call.http /\ result = files[last_call.path]))
    /\ [][\A p \in Paths : files[p] # NoFile => files'[p] = files[p]]_vars

(* C8 witness: the first call after the counter was reset is served from a *)
(* file that an earlier call fetched.                                      *)
C8_Witness ==
    /\ last_call.cached
    /\ ~last_call.http
    /\ request_counter = 1
    /\ result \in Responses
    /\ result = files[last_call.path]

(* C9: at most RateLimit HTTP requests are sent between two resets of *)
(* start_time.                                                        *)
C9_AtMostRateLimitPerWindow == window_http <= RateLimit

(* C10: the caller's dataset has the same rows, row order and columns at *)
(* every point of the call, returned or raised, as when it started.      *)
C10_CallerDatasetUnchanged == heap[CallerRef] = df_at_call

(* C10 witness: the call has returned, the slice of the last stage has *)
(* the D_hat column and the caller's dataset has not.                  *)
C10_Witness ==
    /\ pc = "done"
    /\ results # <<>>
    /\ "D_hat" \in heap[SliceRef].cols
    /\ "D_hat" \notin heap[CallerRef].cols
    /\ heap[CallerRef].rows # <<>>

=============================================================================
